---- MODULE Spec2Model ----
(***************************************************************************)
(* A model of the cell-range comparison engine of SpreadsheetBench          *)
(* (src/evaluation/parity_test.py): value normalisation, cell comparison,  *)
(* column encoding, range expansion, the workbook comparator and the       *)
(* per-task scoring loop run_evaluation; and of the two task drivers of    *)
(* src/inference: the thread pool of inference_multiple.gen_solution and   *)
(* the resumable loop of inference_agent.main.                             *)
(*                                                                         *)
(* Python strings are TLA+ strings; a character is a string of length 1.   *)
(* A Python float is modelled in fixed point: a finite float is an integer *)
(* number of thousandths ("milli"), and the non-finite floats are tagged.  *)
(***************************************************************************)
EXTENDS Integers, Sequences, FiniteSets, TLC

VARIABLES
    \* --- cell comparison (SpecCell) ---
    v1, v2,        \* the two raw cell values handed to compare_cell_value
    eq,            \* <<compare_cell_value(v1, v2)>> once called, <<>> before
    eqr,           \* <<compare_cell_value(v2, v1)>> once called, <<>> before
    norm,          \* successive applications of transform_value to v1
    \* --- column encoding (SpecCol) ---
    col_n,         \* a column number
    col_name,      \* col_num2name(col_n) once encoded
    col_back,      \* col_name2num(col_name) once decoded
    col_pc,        \* "input", "encoded" or "decoded"
    col_low,       \* <<col_name2num(col_name.lower())>> once decoded, <<>> before
    \* --- range expansion (SpecRange) ---
    rng_in,        \* the corners the range expression was written from
    rng_str,       \* a range expression
    rng_calls,     \* the result of each generate_cell_names(rng_str) call so far
    \* --- workbook comparison (Spec) ---
    gt_file,         \* the ground-truth file: [exists, loadable, error, sheetnames, cells]
    proc_file,       \* the produced file, likewise
    answer_position, \* the answer position string
    pc,              \* where compare_workbooks stands
    segments,        \* sheet_cell_ranges = answer_position.split(',')
    seg_i,           \* index of the segment (scr) of the for loop
    sheet_name,      \* sheet name of the current segment
    cell_range,      \* range expression of the current segment
    cell_names,      \* generate_cell_names(cell_range)
    cell_j,          \* index of the cell_name of the inner for loop
    clc,             \* <<(result, msg)>> of each finished cell_level_compare call
    ret,             \* <<(result, msg)>> once compare_workbooks has returned
    exc,             \* <<exception>> once compare_workbooks has raised
    cmp_log,         \* cell names compare_cell_value was called on in this segment
    seg_log,         \* segments cell_level_compare was called on
    load_log,        \* the files load_workbook was called on
    \* --- run_evaluation (SpecEval) ---
    dataset,            \* the tasks: a sequence of [id, answer_position]
    num_test_cases,     \* the number of test cases of every task
    task_i,             \* index of `data` in the for loop over dataset
    tc_idx,             \* tc_idx of the for loop over range(num_test_cases)
    test_case_results,  \* test_case_results of the current task
    results,            \* results: task id -> [test_case_results, soft, hard]
    eval_pc,            \* where run_evaluation stands
    eval_log,           \* what compare_workbooks did in each trial so far
    \* --- inference_multiple.gen_solution (SpecMulti) ---
    m_n,            \* n_concurrent
    m_setting_ok,   \* opt.setting is one of the three settings
    m_nt,           \* len(dataset)
    m_submitted,    \* number of tasks submitted to the executor
    m_state,        \* task -> where its process_single_task call stands
    m_lock,         \* the task whose thread holds _output_lock, 0 when free
    m_open,         \* the tasks that have the JSONL file open for appending
    m_file,         \* the records of the JSONL file: the task of each line
    m_pbar,         \* the count of the progress bar
    m_collected,    \* the futures whose result() has returned
    m_main,         \* where gen_solution stands
    \* --- inference_agent.main (SpecAgent) ---
    a_dataset,       \* the task ids of the dataset, in order
    a_resume_from,   \* <<opt.resume_from>>, <<>> when it is None
    a_i,             \* index of `data` in the for loop
    resume_active,   \* resume_active
    a_pc,            \* where main stands
    a_inputs,        \* the task ids whose input file exists
    a_outputs,       \* the task ids whose output file exists in output_dir
    a_result,        \* <<result>> of the run_agent_on_task call being tracked
    results_summary, \* results_summary
    a_log,           \* the lines of the log file
    a_calls,         \* what each run_agent_on_task call saw and did
    a_visits         \* what the loop did with each task visited so far

cellVars == <<v1, v2, eq, eqr, norm>>
colVars == <<col_n, col_name, col_back, col_pc, col_low>>
rngVars == <<rng_in, rng_str, rng_calls>>
wbInputs == <<gt_file, proc_file, answer_position>>
wbVars == <<wbInputs, pc, segments, seg_i, sheet_name, cell_range, cell_names, cell_j,
            clc, ret, exc, cmp_log, seg_log, load_log>>
evalVars == <<dataset, num_test_cases, task_i, tc_idx, test_case_results, results,
              eval_pc, eval_log>>
multiVars == <<m_n, m_setting_ok, m_nt, m_submitted, m_state, m_lock, m_open, m_file,
               m_pbar, m_collected, m_main>>
agentVars == <<a_dataset, a_resume_from, a_i, resume_active, a_pc, a_inputs, a_outputs,
               a_result, results_summary, a_log, a_calls, a_visits>>
infVars == <<multiVars, agentVars>>
vars == <<cellVars, colVars, rngVars, wbVars, evalVars, infVars>>

\* What the operations of one part leave alone.
outsideCell == <<colVars, rngVars, wbVars, evalVars, infVars>>
outsideCol == <<cellVars, rngVars, wbVars, evalVars, infVars>>
outsideRng == <<cellVars, colVars, wbVars, evalVars, infVars>>
outsideWb == <<cellVars, colVars, rngVars, evalVars, infVars>>
outsideEval == <<cellVars, colVars, rngVars, infVars>>
outsideInf == <<cellVars, colVars, rngVars, wbVars, evalVars>>

(***************************************************************************)
(* Characters and strings                                                  *)
(***************************************************************************)
Digits == "0123456789"
Upper == "ABCDEFGHIJKLMNOPQRSTUVWXYZ"
Lower == "abcdefghijklmnopqrstuvwxyz"

CharAt(s, i) == SubSeq(s, i, i)

\* The 1-based position of character c in alphabet, 0 when it is not there.
IndexIn(c, alphabet) ==
    IF \E i \in 1..Len(alphabet) : CharAt(alphabet, i) = c
    THEN CHOOSE i \in 1..Len(alphabet) : CharAt(alphabet, i) = c
    ELSE 0

\* str.isdigit() of one character (ASCII).
isdigit(c) == IndexIn(c, Digits) > 0

\* ord() of an ASCII character: digits 48.., upper case 65.., lower case 97..
ord(c) ==
    CASE IndexIn(c, Digits) > 0 -> 47 + IndexIn(c, Digits)
      [] IndexIn(c, Upper) > 0 -> 64 + IndexIn(c, Upper)
      [] IndexIn(c, Lower) > 0 -> 96 + IndexIn(c, Lower)
      [] c = " " -> 32
      [] c = "!" -> 33
      [] c = "'" -> 39
      [] c = "+" -> 43
      [] c = "," -> 44
      [] c = "-" -> 45
      [] c = "." -> 46
      [] c = ":" -> 58
      [] c = "_" -> 95

\* chr() on the codes of the upper-case letters.
chr(n) == CharAt(Upper, n - 64)

\* str.lower() of one character.
LowerChar(c) == IF IndexIn(c, Upper) > 0 THEN CharAt(Lower, IndexIn(c, Upper)) ELSE c

RECURSIVE LowerStr(_)
LowerStr(s) ==
    IF Len(s) = 0 THEN "" ELSE LowerChar(CharAt(s, 1)) \o LowerStr(SubSeq(s, 2, Len(s)))

\* The decimal rendering of n >= 0 in exactly w digits (zero padded): "%0wd".
RECURSIVE Pad(_, _)
Pad(n, w) == IF w = 0 THEN "" ELSE Pad(n \div 10, w - 1) \o CharAt(Digits, (n % 10) + 1)

\* int() of a non-empty string of digits.
RECURSIVE DigitsToInt(_)
DigitsToInt(s) ==
    IF Len(s) = 0 THEN 0
    ELSE DigitsToInt(SubSeq(s, 1, Len(s) - 1)) * 10 + (IndexIn(CharAt(s, Len(s)), Digits) - 1)

AllDigits(s) == \A i \in 1..Len(s) : isdigit(CharAt(s, i))

\* str.strip() for blanks.
RECURSIVE StripBlanks(_)
StripBlanks(s) ==
    IF Len(s) > 0 /\ CharAt(s, 1) = " " THEN StripBlanks(SubSeq(s, 2, Len(s)))
    ELSE IF Len(s) > 0 /\ CharAt(s, Len(s)) = " " THEN StripBlanks(SubSeq(s, 1, Len(s) - 1))
    ELSE s

(***************************************************************************)
(* Cell values.  A raw cell value is None, an int, a float, a str, a       *)
(* datetime.time or a datetime.datetime; field t is its Python type.       *)
(* A float is [k |-> "fin", m |-> thousandths], or k is "nan", "inf" or    *)
(* "-inf".  A datetime carries the timedelta (days, seconds, microseconds) *)
(* of dt - datetime(1899, 12, 30), as Python normalises it: 0 <= seconds < *)
(* 86400, so its calendar date is `days` and its time of day is `seconds`. *)
(***************************************************************************)
NoneValue == [t |-> "NoneType"]
IntValue(n) == [t |-> "int", n |-> n]
FloatValue(m) == [t |-> "float", k |-> "fin", m |-> m]
NonFinite(kind) == [t |-> "float", k |-> kind, m |-> 0]
StrValue(s) == [t |-> "str", s |-> s]
TimeValue(h, mi, sec, us) ==
    [t |-> "time", hour |-> h, minute |-> mi, second |-> sec, microsecond |-> us]
DatetimeValue(d, sec, us) ==
    [t |-> "datetime", days |-> d, seconds |-> sec, microsecond |-> us]

\* An == under which a value always equals itself, NaN included.
PyEq_Identity(a, b) == a = b

\* Python's == on the values transform_value returns (float, str, None):
\* NaN equals nothing, itself included; -0.0 equals 0.0 (both are m = 0).
PyEq(a, b) ==
    CASE a.t = "float" /\ b.t = "float" ->
            a.k # "nan" /\ b.k # "nan" /\ a.k = b.k /\ a.m = b.m
      [] a.t = "str" /\ b.t = "str" -> a.s = b.s
      [] a.t = "NoneType" /\ b.t = "NoneType" -> TRUE
      [] OTHER -> FALSE

\* round(x, 2) of a float: the nearest multiple of 0.01.  A value whose
\* thousandths digit is 5 is rounded by the binary representation of the
\* double; no input of the model is such a value.
round2(x) ==
    IF x.k # "fin" THEN x
    ELSE LET r == x.m % 10
         IN CASE r < 5 -> FloatValue(x.m - r)
              [] r > 5 -> FloatValue(x.m - r + 10)

\* float(s) of a str: blanks stripped, an optional sign, then nan, inf or
\* infinity in any case, or a decimal numeral with at most one point and at
\* least one digit.  ok is FALSE where Python raises ValueError.  (Numerals
\* of the model carry at most three fractional digits and no exponent.)
float_of_str(s) ==
    LET t == StripBlanks(s)
        signed == Len(t) > 0 /\ (CharAt(t, 1) = "+" \/ CharAt(t, 1) = "-")
        neg == signed /\ CharAt(t, 1) = "-"
        body == IF signed THEN SubSeq(t, 2, Len(t)) ELSE t
        low == LowerStr(body)
        dot == IndexIn(".", body)
        ip == IF dot = 0 THEN body ELSE SubSeq(body, 1, dot - 1)
        fp == IF dot = 0 THEN "" ELSE SubSeq(body, dot + 1, Len(body))
        frac == SubSeq(fp \o "000", 1, 3)
        mag == DigitsToInt(ip) * 1000 + DigitsToInt(frac)
    IN  CASE low = "nan" -> [ok |-> TRUE, value |-> NonFinite("nan")]
          [] low = "inf" \/ low = "infinity" ->
                [ok |-> TRUE, value |-> NonFinite(IF neg THEN "-inf" ELSE "inf")]
          [] AllDigits(ip) /\ AllDigits(fp) /\ Len(ip) + Len(fp) > 0 ->
                [ok |-> TRUE, value |-> FloatValue(IF neg THEN 0 - mag ELSE mag)]
          [] OTHER -> [ok |-> FALSE, value |-> NoneValue]

\* float(v) of an int or a float cell.
float_of_number(v) == IF v.t = "int" THEN FloatValue(v.n * 1000) ELSE v

\* str(v) of a datetime.time: HH:MM:SS, and .ffffff when microsecond # 0.
str_of_time(v) ==
    Pad(v.hour, 2) \o ":" \o Pad(v.minute, 2) \o ":" \o Pad(v.second, 2)
        \o (IF v.microsecond = 0 THEN "" ELSE "." \o Pad(v.microsecond, 6))

SecondsPerDay == 86400

\* datetime_to_float: delta.days + delta.seconds / 86400.0, kept exact as
\* the number of 1/86400 days (delta.microseconds is not read).
datetime_to_float(dt) == dt.days * SecondsPerDay + dt.seconds

\* round(x, 0) of a serial number given in 1/86400 days: the nearest whole
\* day, an exact half (noon) going to the even day.  Half a day is exactly
\* representable in a double, so the tie is a true tie.
round0(serial) ==
    LET q == serial \div SecondsPerDay
        r == serial % SecondsPerDay
    IN  CASE 2 * r < SecondsPerDay -> q
          [] 2 * r > SecondsPerDay -> q + 1
          [] OTHER -> IF q % 2 = 0 THEN q ELSE q + 1

\* A TransformNumber that truncates to 2 decimals instead of rounding.
TransformNumber_Truncate(v) ==
    LET x == float_of_number(v) IN FloatValue(x.m - (x.m % 10))

\* A TransformTime that keeps the whole rendering, str(v).
TransformTime_NoSlice(v) == StrValue(str_of_time(v))

\* A TransformDatetime that takes the whole days, int(serial).
TransformDatetime_Floor(v) == FloatValue((datetime_to_float(v) \div SecondsPerDay) * 1000)

\* A TransformDatetime that returns the serial number unrounded.
TransformDatetime_NoRound(v) == FloatValue((datetime_to_float(v) * 1000) \div SecondsPerDay)

\* A TransformStr that leaves every string as it is.
TransformStr_NoParse(v) == v

\* transform_value, branch by branch.
\* isinstance(v, (int, float)): round(float(v), 2)
TransformNumber(v) == round2(float_of_number(v))

\* isinstance(v, datetime.time): str(v)[:-3]
TransformTime(v) ==
    LET s == str_of_time(v) IN StrValue(SubSeq(s, 1, Len(s) - 3))

\* isinstance(v, datetime.datetime): round(datetime_to_float(v), 0)
TransformDatetime(v) == FloatValue(round0(datetime_to_float(v)) * 1000)

\* isinstance(v, str): round(float(v), 2), or v itself on ValueError
TransformStr(v) ==
    LET f == float_of_str(v.s) IN IF f.ok THEN round2(f.value) ELSE v

transform_value(v) ==
    CASE v.t = "int" \/ v.t = "float" -> TransformNumber(v)
      [] v.t = "time" -> TransformTime(v)
      [] v.t = "datetime" -> TransformDatetime(v)
      [] v.t = "str" -> TransformStr(v)
      [] OTHER -> v

\* An EmptyEquivalent without the first early return (None against "").
EmptyEquivalent_SameOnly(t1, t2) ==
    \/ (PyEq(t1, StrValue("")) /\ PyEq(t2, StrValue("")))
    \/ (t1.t = "NoneType" /\ t2.t = "NoneType")

\* An EmptyEquivalent whose first early return tests one order only.
EmptyEquivalent_OneWay(t1, t2) ==
    \/ (PyEq(t1, StrValue("")) /\ t2.t = "NoneType")
    \/ (PyEq(t1, StrValue("")) /\ PyEq(t2, StrValue("")))
    \/ (t1.t = "NoneType" /\ t2.t = "NoneType")

\* The two early returns of compare_cell_value: "" and None are one value.
EmptyEquivalent(t1, t2) ==
    \/ (PyEq(t1, StrValue("")) /\ t2.t = "NoneType")
    \/ (t1.t = "NoneType" /\ PyEq(t2, StrValue("")))
    \/ (PyEq(t1, StrValue("")) /\ PyEq(t2, StrValue("")))
    \/ (t1.t = "NoneType" /\ t2.t = "NoneType")

compare_cell_value(a, b) ==
    LET t1 == transform_value(a)
        t2 == transform_value(b)
    IN  IF EmptyEquivalent(t1, t2) THEN TRUE
        ELSE IF t1.t # t2.t THEN FALSE
        ELSE PyEq(t1, t2)

(***************************************************************************)
(* Column encoding                                                         *)
(***************************************************************************)
\* A col_num2name that divides n instead of n - 1 (plain base 26).
RECURSIVE col_num2name_NoDecrement(_)
col_num2name_NoDecrement(n) ==
    IF n > 0 THEN col_num2name_NoDecrement(n \div 26) \o chr(65 + (n % 26)) ELSE ""

RECURSIVE col_num2name(_)
col_num2name(n) ==
    IF n > 0 THEN col_num2name((n - 1) \div 26) \o chr(65 + ((n - 1) % 26)) ELSE ""

RECURSIVE col_name2num(_)
col_name2num(name) ==
    IF Len(name) = 0 THEN 0
    ELSE col_name2num(SubSeq(name, 1, Len(name) - 1)) * 26
            + (ord(CharAt(name, Len(name))) - ord("A") + 1)

(***************************************************************************)
(* Range expansion                                                         *)
(***************************************************************************)
Contains(c, s) == \E i \in 1..Len(s) : CharAt(s, i) = c

\* s.find(c) + 1: the first position of character c in s, 0 when absent.
FirstIndex(c, s) ==
    IF Contains(c, s)
    THEN CHOOSE i \in 1..Len(s) :
            CharAt(s, i) = c /\ \A j \in 1..(i - 1) : CharAt(s, j) # c
    ELSE 0

\* s.split(sep) for a one-character separator.
RECURSIVE Split(_, _)
Split(s, sep) ==
    LET i == FirstIndex(sep, s)
    IN  IF i = 0 THEN <<s>>
        ELSE <<SubSeq(s, 1, i - 1)>> \o Split(SubSeq(s, i + 1, Len(s)), sep)

\* s.strip("'")
RECURSIVE StripQuotes(_)
StripQuotes(s) ==
    IF Len(s) > 0 /\ CharAt(s, 1) = "'" THEN StripQuotes(SubSeq(s, 2, Len(s)))
    ELSE IF Len(s) > 0 /\ CharAt(s, Len(s)) = "'" THEN StripQuotes(SubSeq(s, 1, Len(s) - 1))
    ELSE s

\* str(n) of an int n >= 0.
RECURSIVE str_of_int(_)
str_of_int(n) ==
    IF n < 10 THEN CharAt(Digits, n + 1)
    ELSE str_of_int(n \div 10) \o CharAt(Digits, (n % 10) + 1)

\* The digits of a corner (its row text), in order.
RECURSIVE RowText(_)
RowText(cell) ==
    IF Len(cell) = 0 THEN ""
    ELSE (IF isdigit(CharAt(cell, 1)) THEN CharAt(cell, 1) ELSE "")
            \o RowText(SubSeq(cell, 2, Len(cell)))

\* The other characters of a corner (its column text), in order.
RECURSIVE ColText(_)
ColText(cell) ==
    IF Len(cell) = 0 THEN ""
    ELSE (IF isdigit(CharAt(cell, 1)) THEN "" ELSE CharAt(cell, 1))
            \o ColText(SubSeq(cell, 2, Len(cell)))

\* parse_cell_range: ok is FALSE where Python raises ValueError (the split
\* does not unpack into two corners, or int('') of a corner without digits).
parse_cell_range(range_str) ==
    LET parts == Split(range_str, ":")
    IN  IF Len(parts) # 2 \/ RowText(parts[1]) = "" \/ RowText(parts[2]) = ""
        THEN [ok |-> FALSE, error |-> "ValueError"]
        ELSE [ok |-> TRUE,
              start_col |-> col_name2num(ColText(parts[1])),
              start_row |-> DigitsToInt(RowText(parts[1])),
              end_col |-> col_name2num(ColText(parts[2])),
              end_row |-> DigitsToInt(RowText(parts[2]))]

\* A SpanCount that takes the corners in either order.
SpanCount_Normalised(lo, hi) == IF hi >= lo THEN hi - lo + 1 ELSE lo - hi + 1

\* len(range(lo, hi + 1)): empty when hi < lo.
SpanCount(lo, hi) == IF hi >= lo THEN hi - lo + 1 ELSE 0

\* A CellAt with the loops exchanged: `for row in ... for col in columns`.
CellAt_RowMajor(r, nc, nr, k) ==
    col_num2name(r.start_col + ((k - 1) % nc)) \o str_of_int(r.start_row + ((k - 1) \div nc))

\* The k-th element of [f"{col}{row}" for col in columns for row in range(...)],
\* for nc columns and nr rows.
CellAt(r, nc, nr, k) ==
    col_num2name(r.start_col + ((k - 1) \div nr)) \o str_of_int(r.start_row + ((k - 1) % nr))

\* generate_cell_names: columns in the outer loop, rows in the inner loop.
generate_cell_names(range_str) ==
    IF ~Contains(":", range_str) THEN [ok |-> TRUE, names |-> <<range_str>>]
    ELSE LET r == parse_cell_range(range_str)
         IN  IF ~r.ok THEN [ok |-> FALSE, error |-> r.error]
             ELSE LET nc == SpanCount(r.start_col, r.end_col)
                      nr == SpanCount(r.start_row, r.end_row)
                  IN  [ok |-> TRUE,
                       names |->
                          IF nc = 0 \/ nr = 0 THEN <<>>
                          ELSE [k \in 1..(nc * nr) |-> CellAt(r, nc, nr, k)]]

(***************************************************************************)
(* Workbooks.  A file is [exists, loadable, error, sheetnames, cells]:     *)
(* error is the text of the exception load_workbook raises on it, cells    *)
(* maps a sheet name to its cells (coordinate -> value).  A cell that is   *)
(* not stored reads as None.                                               *)
(***************************************************************************)
\* sheet_name in wb
HasSheet(wb, name) == \E i \in 1..Len(wb.sheetnames) : wb.sheetnames[i] = name

\* wb[sheet_name][cell_name].value
CellValueOf(wb, sheet, name) ==
    IF name \in DOMAIN wb.cells[sheet] THEN wb.cells[sheet][name] ELSE NoneValue

\* load_workbook succeeds on the file.
Loadable(f) == f.exists /\ f.loadable

\* The returned pair (result, msg).  msg is a text, or the "Value diff at"
\* message, kept as its parts: the coordinate and the repr of both values.
Text(s) == [kind |-> "text", text |-> s]
ValueDiff(name, g, p) == [kind |-> "diff", cell |-> name, gt |-> g, proc |-> p]
Returned(result, msg) == [result |-> result, msg |-> msg]

(***************************************************************************)
(* Inputs of the cell comparison                                           *)
(***************************************************************************)
\* Floats are taken within Spread thousandths of 0 and of 5, and 10.0.
Spread == 7
\* Datetimes fall on the days 0..MaxDays after the epoch.
MaxDays == 2

NotTie(m) == m % 10 # 5

IntCells == {IntValue(n) : n \in {-5, 0, 5, 10}}
FloatCells ==
    {FloatValue(m) : m \in {k \in (0 - Spread)..Spread : NotTie(k)}}
    \cup {FloatValue(m) : m \in {k \in (5000 - Spread)..(5000 + Spread) : NotTie(k)}}
    \cup {FloatValue(10000)}
StrCells ==
    {StrValue(s) : s \in {"", " ", "0", "5", "5.00", "5.004", "5.006", " 5 ", "+5", "-5",
                          "5.", ".5", ".", "-", "10", "five", "abc", "nan", "NaN", "-nan",
                          "inf", "-inf", "Infinity", "12:30", "12:30:45", "12:30:45.123"}}
TimeCells ==
    {TimeValue(12, mi, sec, us) :
        mi \in {30, 31}, sec \in {0, 45}, us \in {0, 123456, 123999, 654321}}
DatetimeCells ==
    {DatetimeValue(d, sec, us) :
        d \in 0..MaxDays, sec \in {0, 21600, 43200, 64800, 86399}, us \in {0, 500000}}
CellInputs ==
    {NoneValue} \cup IntCells \cup FloatCells \cup StrCells \cup TimeCells \cup DatetimeCells

\* Columns up to MaxCol are encoded; NonPositive numbers below 1 as well.
MaxCol == 20000
NonPositive == 2

(***************************************************************************)
(* Inputs of the workbook comparison                                       *)
(***************************************************************************)
GridCells == {"A1", "A2", "B1", "B2"}

\* The ground truth's cells.
GtCells ==
    [sh \in {"Sheet1", "Data"} |->
        IF sh = "Sheet1"
        THEN [c \in GridCells |->
                CASE c = "A1" -> IntValue(10)
                  [] c = "A2" -> NoneValue
                  [] c = "B1" -> StrValue("20")
                  [] c = "B2" -> FloatValue(5004)]
        ELSE [c \in GridCells |->
                CASE c = "A1" -> StrValue("abc")
                  [] c = "A2" -> TimeValue(12, 30, 0, 0)
                  [] c = "B1" -> DatetimeValue(1, 21600, 0)
                  [] c = "B2" -> StrValue("")]]

\* Produced cells that differ from the ground truth's as raw values and are
\* equal to them under compare_cell_value.
ProcCells ==
    [sh \in {"Sheet1", "Data"} |->
        IF sh = "Sheet1"
        THEN [c \in GridCells |->
                CASE c = "A1" -> FloatValue(10000)
                  [] c = "A2" -> StrValue("")
                  [] c = "B1" -> IntValue(20)
                  [] c = "B2" -> IntValue(5)]
        ELSE [c \in GridCells |->
                CASE c = "A1" -> StrValue("abc")
                  [] c = "A2" -> TimeValue(12, 30, 45, 0)
                  [] c = "B1" -> DatetimeValue(1, 0, 0)
                  [] c = "B2" -> NoneValue]]

\* A produced value that equals no ground-truth value.
WrongValue == StrValue("wrong")

\* At most MaxDiffs cells of the produced workbook hold a wrong value.
MaxDiffs == 2
Positions == {"Sheet1", "Data"} \X GridCells
DiffSets == {D \in SUBSET Positions : Cardinality(D) <= MaxDiffs}

SheetLists(all) == {<<"Sheet1", "Data">>, <<"Data", "Sheet1">>, <<"Sheet1">>, <<"Data">>} \cap all
Range(seq) == {seq[i] : i \in 1..Len(seq)}

GtFile(names) ==
    [exists |-> TRUE, loadable |-> TRUE, error |-> "",
     sheetnames |-> names,
     cells |-> [sh \in Range(names) |-> GtCells[sh]]]

ProcFile(names, D) ==
    [exists |-> TRUE, loadable |-> TRUE, error |-> "",
     sheetnames |-> names,
     cells |-> [sh \in Range(names) |->
                  [c \in GridCells |->
                      IF <<sh, c>> \in D THEN WrongValue ELSE ProcCells[sh][c]]]]

\* A workbook that holds cell value x at Sheet1!A1.
SelfFile(x) ==
    [GtFile(<<"Sheet1", "Data">>) EXCEPT !.cells["Sheet1"]["A1"] = x]

Missing(f) == [f EXCEPT !.exists = FALSE, !.error = "No such file or directory"]
Corrupt(f) == [f EXCEPT !.loadable = FALSE, !.error = "File is not a zip file"]

AnswerPositions ==
    {"A1", "A1:B1", "A1:B2", "B2:A1", "A2:B1", "B1:A2", "C1:C2",
     "Sheet1!A1:B2", "'Sheet1'!'A1:B2'",
     "'Data'!A1:A2,B1:B2", "A1:A2,'Data'!B2,Sheet1!B1",
     "Data!B1:B2,Sheet1!A1:B2", "Sheet1!A1!B2", "A:B"}

InitWbControl ==
    /\ pc = "exists"
    /\ segments = <<>> /\ seg_i = 0
    /\ sheet_name = "" /\ cell_range = "" /\ cell_names = <<>> /\ cell_j = 0
    /\ clc = <<>> /\ ret = <<>> /\ exc = <<>>
    /\ cmp_log = <<>> /\ seg_log = <<>> /\ load_log = <<>>

InitWbIdle ==
    /\ gt_file = GtFile(<<"Sheet1", "Data">>)
    /\ proc_file = ProcFile(<<"Sheet1", "Data">>, {})
    /\ answer_position = "A1"
    /\ pc = "idle"
    /\ segments = <<>> /\ seg_i = 0
    /\ sheet_name = "" /\ cell_range = "" /\ cell_names = <<>> /\ cell_j = 0
    /\ clc = <<>> /\ ret = <<>> /\ exc = <<>>
    /\ cmp_log = <<>> /\ seg_log = <<>> /\ load_log = <<>>

InitCellIdle ==
    /\ v1 = NoneValue /\ v2 = NoneValue
    /\ eq = <<>> /\ eqr = <<>> /\ norm = <<>>

InitColIdle ==
    /\ col_n = 1 /\ col_name = "" /\ col_back = 0 /\ col_pc = "input" /\ col_low = <<>>

InitRngIdle ==
    /\ rng_in = [start_col |-> 1, start_row |-> 1, end_col |-> 1, end_row |-> 1]
    /\ rng_str = "A1" /\ rng_calls = <<>>

InitEvalIdle ==
    /\ dataset = <<>> /\ num_test_cases = 1
    /\ task_i = 0 /\ tc_idx = 0 /\ test_case_results = <<>>
    /\ results = <<>> /\ eval_pc = "idle" /\ eval_log = <<>>

NoCounts == [success |-> 0, no_output |-> 0, error |-> 0, timeout |-> 0, skipped |-> 0]

InitMultiIdle ==
    /\ m_n = 1 /\ m_setting_ok = TRUE /\ m_nt = 0 /\ m_submitted = 0
    /\ m_state = <<>> /\ m_lock = 0 /\ m_open = {} /\ m_file = <<>>
    /\ m_pbar = 0 /\ m_collected = {} /\ m_main = "idle"

InitAgentIdle ==
    /\ a_dataset = <<>> /\ a_resume_from = <<>> /\ a_i = 0
    /\ resume_active = FALSE /\ a_pc = "idle"
    /\ a_inputs = {} /\ a_outputs = {} /\ a_result = <<>>
    /\ results_summary = NoCounts
    /\ a_log = <<>> /\ a_calls = <<>> /\ a_visits = <<>>

InitInfIdle == InitMultiIdle /\ InitAgentIdle

(***************************************************************************)
(* SpecCell: compare_cell_value and transform_value on every pair of       *)
(* inputs.                                                                 *)
(***************************************************************************)
InitCell ==
    /\ v1 \in CellInputs /\ v2 \in CellInputs
    /\ eq = <<>> /\ eqr = <<>> /\ norm = <<>>
    /\ InitColIdle
    /\ InitWbIdle
    /\ InitRngIdle
    /\ InitEvalIdle
    /\ InitInfIdle

\* result = compare_cell_value(v1, v2)
Compare ==
    /\ eq = <<>>
    /\ eq' = <<compare_cell_value(v1, v2)>>
    /\ UNCHANGED <<v1, v2, eqr, norm, outsideCell>>

\* result = compare_cell_value(v2, v1)
CompareSwapped ==
    /\ eqr = <<>>
    /\ eqr' = <<compare_cell_value(v2, v1)>>
    /\ UNCHANGED <<v1, v2, eq, norm, outsideCell>>

\* v = transform_value(v), applied to v1 and then to its own result
Normalize ==
    /\ Len(norm) < 2
    /\ norm' = Append(norm, transform_value(IF norm = <<>> THEN v1 ELSE norm[Len(norm)]))
    /\ UNCHANGED <<v1, v2, eq, eqr, outsideCell>>

NextCell == Compare \/ CompareSwapped \/ Normalize

SpecCell == InitCell /\ [][NextCell]_vars

(***************************************************************************)
(* SpecCol: col_num2name and col_name2num.                                 *)
(***************************************************************************)
InitCol ==
    /\ col_n \in (1 - NonPositive)..MaxCol
    /\ col_name = "" /\ col_back = 0 /\ col_pc = "input" /\ col_low = <<>>
    /\ InitCellIdle
    /\ InitWbIdle
    /\ InitRngIdle
    /\ InitEvalIdle
    /\ InitInfIdle

Encode ==
    /\ col_pc = "input"
    /\ col_name' = col_num2name(col_n)
    /\ col_pc' = "encoded"
    /\ UNCHANGED <<col_n, col_back, col_low, outsideCol>>

Decode ==
    /\ col_pc = "encoded"
    /\ col_back' = col_name2num(col_name)
    /\ col_pc' = "decoded"
    /\ UNCHANGED <<col_n, col_name, col_low, outsideCol>>

\* col_name2num on the lower-case spelling of the name.
DecodeLower ==
    /\ col_pc \in {"encoded", "decoded"}
    /\ col_low = <<>>
    /\ col_low' = <<col_name2num(LowerStr(col_name))>>
    /\ UNCHANGED <<col_n, col_name, col_back, col_pc, outsideCol>>

NextCol == Encode \/ Decode \/ DecodeLower

SpecCol == InitCol /\ [][NextCol]_vars

(***************************************************************************)
(* SpecRange: generate_cell_names on range expressions and on single       *)
(* coordinates, called twice.                                              *)
(***************************************************************************)
\* Column and row texts as a spreadsheet shows them.
ColNames ==
    <<"A", "B", "C", "D", "E", "F", "G", "H", "I", "J", "K", "L", "M", "N", "O", "P",
      "Q", "R", "S", "T", "U", "V", "W", "X", "Y", "Z", "AA", "AB", "AC", "AD">>
RowNames == <<"1", "2", "3", "4", "5", "6", "7", "8", "9", "10", "11", "12", "13", "14">>

\* A range spans up to MaxWidth further columns and MaxHeight further rows;
\* its end corner may also lie one column or one row before its start.
MaxWidth == 2
MaxHeight == 2
RangeCorners ==
    {[start_col |-> c, start_row |-> r, end_col |-> c + dc, end_row |-> r + dr] :
        c \in {2, 25, 26}, r \in {2, 9, 10}, dc \in (0 - 1)..MaxWidth, dr \in (0 - 1)..MaxHeight}
    \cup {[start_col |-> 1, start_row |-> 1, end_col |-> 2, end_row |-> 2]}

CornerText(c, r) == ColNames[c] \o RowNames[r]
RangeText(in) ==
    CornerText(in.start_col, in.start_row) \o ":" \o CornerText(in.end_col, in.end_row)

InitRange ==
    /\ rng_in \in RangeCorners
    /\ rng_str \in {RangeText(rng_in), CornerText(rng_in.start_col, rng_in.start_row)}
    /\ rng_calls = <<>>
    /\ InitCellIdle
    /\ InitColIdle
    /\ InitWbIdle
    /\ InitEvalIdle
    /\ InitInfIdle

\* One call generate_cell_names(range_str).
Expand ==
    /\ Len(rng_calls) < 2
    /\ rng_calls' = Append(rng_calls, generate_cell_names(rng_str))
    /\ UNCHANGED <<rng_in, rng_str, outsideRng>>

NextRange == Expand

SpecRange == InitRange /\ [][NextRange]_vars

(***************************************************************************)
(* Spec: compare_workbooks(gt_file, proc_file, answer_position), with      *)
(* cell_level_compare inlined at its call.                                 *)
(***************************************************************************)
Init ==
    /\ \/ /\ gt_file \in {GtFile(n) : n \in SheetLists({<<"Sheet1", "Data">>,
                                                        <<"Data", "Sheet1">>, <<"Sheet1">>})}
          /\ proc_file \in {ProcFile(n, D) :
                               n \in SheetLists({<<"Sheet1", "Data">>, <<"Sheet1">>, <<"Data">>}),
                               D \in DiffSets}
       \/ /\ gt_file \in {GtFile(<<"Sheet1", "Data">>),
                          Missing(GtFile(<<"Sheet1", "Data">>)),
                          Corrupt(GtFile(<<"Sheet1", "Data">>))}
          /\ proc_file \in {Missing(ProcFile(<<"Sheet1", "Data">>, {})),
                            Corrupt(ProcFile(<<"Sheet1", "Data">>, {}))}
       \/ /\ gt_file \in {Missing(GtFile(<<"Sheet1", "Data">>)),
                          Corrupt(GtFile(<<"Sheet1", "Data">>))}
          /\ proc_file = ProcFile(<<"Sheet1", "Data">>, {})
       \/ \* a workbook compared against itself
          /\ gt_file \in {SelfFile(x) : x \in CellInputs}
          /\ proc_file = gt_file
    /\ answer_position \in AnswerPositions
    /\ InitWbControl
    /\ InitCellIdle
    /\ InitColIdle
    /\ InitRngIdle
    /\ InitEvalIdle
    /\ InitInfIdle

\* sheet_name, cell_range = scr.split('!') unpacks (or is not executed).
Unpacks(scr) == ~Contains("!", scr) \/ Len(Split(scr, "!")) = 2

\* A SegmentSheet that defaults to the produced workbook's first sheet.
SegmentSheet_ProcFirst(scr, wb_gt) ==
    IF Contains("!", scr) THEN StripQuotes(Split(scr, "!")[1]) ELSE proc_file.sheetnames[1]

\* The sheet name of a segment: the text before '!' without its quotes, or
\* the first sheet of the ground truth.
SegmentSheet(scr, wb_gt) ==
    IF Contains("!", scr) THEN StripQuotes(Split(scr, "!")[1]) ELSE wb_gt.sheetnames[1]

\* The range expression of a segment, without its quotes.
SegmentRange(scr) ==
    StripQuotes(IF Contains("!", scr) THEN Split(scr, "!")[2] ELSE scr)

\* A DiffMessage that reports the normalised values.
DiffMessage_Normalised(cell_name, g, p) ==
    ValueDiff(cell_name, transform_value(g), transform_value(p))

\* f"Value diff at {cell_name}: gt={cell_gt.value!r}, proc={cell_proc.value!r}"
DiffMessage(cell_name, g, p) == ValueDiff(cell_name, g, p)

\* A LastSegment that holds at every segment: `return True, ""` inside the loop.
LastSegment_Always == TRUE

\* The for loop over sheet_cell_ranges has no further segment.
LastSegment == seg_i >= Len(segments)

\* A sheet test on the ground truth: `if sheet_name not in wb_gt`.
SheetMissing_InGt(wb_gt, wb_proc, sn) == ~HasSheet(wb_gt, sn)

\* if sheet_name not in wb_proc
SheetMissing(wb_gt, wb_proc, sn) == ~HasSheet(wb_proc, sn)

\* An existence test that finds every produced file: the test left out.
ProcExists_Always(f) == TRUE

\* os.path.exists(proc_file)
ProcExists(f) == f.exists

\* An except clause that catches FileNotFoundError only.
Catches_FileNotFoundOnly(e) == e = "No such file or directory"

\* except Exception: every error load_workbook raises is an Exception.
Catches(e) == TRUE

\* if not os.path.exists(proc_file): return False, "File not exist"
CheckExists ==
    /\ pc = "exists"
    /\ IF ~ProcExists(proc_file)
       THEN /\ ret' = <<Returned(FALSE, Text("File not exist"))>>
            /\ pc' = "done"
       ELSE /\ ret' = ret
            /\ pc' = "load"
    /\ UNCHANGED <<wbInputs, segments, seg_i, sheet_name, cell_range, cell_names, cell_j,
                   clc, exc, cmp_log, seg_log, load_log, outsideWb>>

\* try: load both workbooks; except Exception as e: return False, str(e).
\* Then sheet_cell_ranges = answer_position.split(',').
LoadWorkbooks ==
    /\ pc = "load"
    /\ LET failed == IF ~Loadable(gt_file) THEN <<gt_file.error>>
                     ELSE IF ~Loadable(proc_file) THEN <<proc_file.error>>
                     ELSE <<>>
       IN  /\ load_log' = IF ~Loadable(gt_file) THEN <<"gt_file">>
                                                ELSE <<"gt_file", "proc_file">>
           /\ IF failed # <<>>
              THEN /\ IF Catches(failed[1])
                      THEN /\ ret' = <<Returned(FALSE, Text(failed[1]))>>
                           /\ exc' = exc
                      ELSE /\ exc' = <<failed[1]>>
                           /\ ret' = ret
                   /\ pc' = "done"
                   /\ UNCHANGED <<segments, seg_i>>
              ELSE /\ segments' = Split(answer_position, ",")
                   /\ seg_i' = 1
                   /\ pc' = "segment"
                   /\ UNCHANGED <<ret, exc>>
    /\ UNCHANGED <<wbInputs, sheet_name, cell_range, cell_names, cell_j,
                   clc, cmp_log, seg_log, outsideWb>>

\* One pass of `for scr in sheet_cell_ranges` up to the inner loop: the sheet
\* name and the range of the segment, then cell_level_compare's sheet test,
\* its two worksheet look-ups and generate_cell_names(cell_range).
BeginSegment ==
    /\ pc = "segment"
    /\ LET scr == segments[seg_i]
           sn == SegmentSheet(scr, gt_file)
           cr == SegmentRange(scr)
           gen == generate_cell_names(cr)
       IN  IF ~Unpacks(scr)
           THEN \* sheet_name, cell_range = scr.split('!') does not unpack
                /\ exc' = <<"ValueError">>
                /\ pc' = "done"
                /\ UNCHANGED <<sheet_name, cell_range, cell_names, cell_j, clc, ret,
                               cmp_log, seg_log>>
           ELSE /\ sheet_name' = sn
                /\ cell_range' = cr
                /\ seg_log' = Append(seg_log, seg_i)
                /\ cmp_log' = <<>>
                /\ IF SheetMissing(gt_file, proc_file, sn)
                   THEN /\ clc' = Append(clc, Returned(FALSE, Text("worksheet not found")))
                        /\ ret' = <<Returned(FALSE, Text("worksheet not found"))>>
                        /\ pc' = "done"
                        /\ UNCHANGED <<cell_names, cell_j, exc>>
                   ELSE IF ~HasSheet(gt_file, sn)
                   THEN \* ws_gt = wb_gt[sheet_name]
                        /\ exc' = <<"KeyError">>
                        /\ pc' = "done"
                        /\ UNCHANGED <<cell_names, cell_j, clc, ret>>
                   ELSE IF ~gen.ok
                   THEN /\ exc' = <<gen.error>>
                        /\ pc' = "done"
                        /\ UNCHANGED <<cell_names, cell_j, clc, ret>>
                   ELSE /\ cell_names' = gen.names
                        /\ cell_j' = 1
                        /\ pc' = "cells"
                        /\ UNCHANGED <<clc, ret, exc>>
    /\ UNCHANGED <<wbInputs, segments, seg_i, load_log, outsideWb>>

\* One pass of `for cell_name in generate_cell_names(cell_range)`; a
\* mismatch returns from cell_level_compare and from compare_workbooks.
CompareCell ==
    /\ pc = "cells"
    /\ cell_j <= Len(cell_names)
    /\ LET cell_name == cell_names[cell_j]
           g == CellValueOf(gt_file, sheet_name, cell_name)
           p == CellValueOf(proc_file, sheet_name, cell_name)
       IN  /\ cmp_log' = Append(cmp_log, cell_name)
           /\ IF compare_cell_value(g, p)
              THEN /\ cell_j' = cell_j + 1
                   /\ UNCHANGED <<pc, clc, ret>>
              ELSE /\ clc' = Append(clc, Returned(FALSE, DiffMessage(cell_name, g, p)))
                   /\ ret' = <<Returned(FALSE, DiffMessage(cell_name, g, p))>>
                   /\ pc' = "done"
                   /\ UNCHANGED cell_j
    /\ UNCHANGED <<wbInputs, segments, seg_i, sheet_name, cell_range, cell_names,
                   exc, seg_log, load_log, outsideWb>>

\* The inner loop is exhausted: cell_level_compare returns (True, ""), and
\* compare_workbooks goes on to the next segment or returns (True, "").
SegmentPassed ==
    /\ pc = "cells"
    /\ cell_j > Len(cell_names)
    /\ clc' = Append(clc, Returned(TRUE, Text("")))
    /\ IF ~LastSegment
       THEN /\ seg_i' = seg_i + 1
            /\ pc' = "segment"
            /\ ret' = ret
       ELSE /\ ret' = <<Returned(TRUE, Text(""))>>
            /\ pc' = "done"
            /\ UNCHANGED seg_i
    /\ UNCHANGED <<wbInputs, segments, sheet_name, cell_range, cell_names, cell_j,
                   exc, cmp_log, seg_log, load_log, outsideWb>>

Next == CheckExists \/ LoadWorkbooks \/ BeginSegment \/ CompareCell \/ SegmentPassed

Spec == Init /\ [][Next]_vars

(***************************************************************************)
(* SpecEval: run_evaluation(dataset, spreadsheet_dir, num_test_cases,      *)
(* mode).  Each trial runs compare_workbooks, as modelled above, on the    *)
(* files found at the paths of the task and test case.                     *)
(***************************************************************************)
\* Every task has up to MaxTrials test cases.
MaxTrials == 3

Task1 == [id |-> "T1", answer_position |-> "'Data'!A1"]
Task2 == [id |-> "T2", answer_position |-> "A1,'Data'!B1"]
Datasets == {<<Task1>>, <<Task1, Task2>>, <<Task2, Task1>>}

\* The files a trial may find: a produced workbook that passes, one with
\* wrong values, and a ground truth without the sheet 'Data'.
TrialFiles ==
    {[gt |-> GtFile(<<"Sheet1", "Data">>), proc |-> ProcFile(<<"Sheet1", "Data">>, {})],
     [gt |-> GtFile(<<"Sheet1", "Data">>),
      proc |-> ProcFile(<<"Sheet1", "Data">>, {<<"Data", "A1">>, <<"Data", "B1">>})],
     [gt |-> GtFile(<<"Sheet1">>), proc |-> ProcFile(<<"Sheet1", "Data">>, {})]}

InitEval ==
    /\ dataset \in Datasets
    /\ num_test_cases \in 1..MaxTrials
    /\ task_i = 1 /\ tc_idx = 0 /\ test_case_results = <<>>
    /\ results = <<>> /\ eval_pc = "trial" /\ eval_log = <<>>
    /\ InitWbIdle
    /\ InitCellIdle
    /\ InitColIdle
    /\ InitRngIdle
    /\ InitInfIdle

\* The locals of a compare_workbooks call before its first statement
\* (p = "exists") and after the call (p = "idle").
ResetWb(p) ==
    /\ pc' = p
    /\ segments' = <<>> /\ seg_i' = 0
    /\ sheet_name' = "" /\ cell_range' = "" /\ cell_names' = <<>> /\ cell_j' = 0
    /\ clc' = <<>> /\ ret' = <<>> /\ exc' = <<>>
    /\ cmp_log' = <<>> /\ seg_log' = <<>> /\ load_log' = <<>>

\* int(result)
IntOf(b) == IF b THEN 1 ELSE 0

\* test_case_results.count(x)
Count(seq, x) == Cardinality({k \in 1..Len(seq) : seq[k] = x})

\* 'soft': test_case_results.count(1) / len(test_case_results), as a fraction.
Soft(tcr) == [num |-> Count(tcr, 1), den |-> Len(tcr)]

\* A Hard that asks for one passed test case: `1 if 1 in test_case_results else 0`.
Hard_AnyPass(tcr) == IF \E k \in 1..Len(tcr) : tcr[k] = 1 THEN 1 ELSE 0

\* 'hard': 0 if 0 in test_case_results else 1
Hard(tcr) == IF \E k \in 1..Len(tcr) : tcr[k] = 0 THEN 0 ELSE 1

\* An except clause that catches ValueError only.
TrialCatches_ValueErrorOnly(e) == e = "ValueError"

\* except Exception: what compare_workbooks raises is an Exception.
TrialCatches(e) == TRUE

\* for tc_idx in range(num_test_cases): get_file_paths and the call of
\* compare_workbooks(gt_path, proc_path, data['answer_position']).
StartTrial ==
    /\ eval_pc = "trial"
    /\ tc_idx < num_test_cases
    /\ \E f \in TrialFiles :
          /\ gt_file' = f.gt
          /\ proc_file' = f.proc
    /\ answer_position' = dataset[task_i].answer_position
    /\ ResetWb("exists")
    /\ eval_pc' = "comparing"
    /\ UNCHANGED <<dataset, num_test_cases, task_i, tc_idx, test_case_results, results,
                   eval_log, outsideEval>>

\* compare_workbooks has returned or raised: result is its result, or False
\* in the except clause; test_case_results.append(int(result)).
RecordTrial ==
    /\ eval_pc = "comparing"
    /\ pc = "done"
    /\ LET raised == exc # <<>>
           result == IF raised THEN FALSE ELSE ret[1].result
       IN  IF raised /\ ~TrialCatches(exc[1])
           THEN /\ eval_pc' = "raised"
                /\ UNCHANGED <<tc_idx, test_case_results, eval_log>>
           ELSE /\ test_case_results' = Append(test_case_results, IntOf(result))
                /\ tc_idx' = tc_idx + 1
                /\ eval_log' = Append(eval_log,
                                      [task |-> dataset[task_i].id,
                                       tc |-> tc_idx + 1,
                                       outcome |-> IF raised THEN "raised"
                                                   ELSE IF result THEN "passed"
                                                   ELSE "failed"])
                /\ eval_pc' = "trial"
    /\ gt_file' = GtFile(<<"Sheet1", "Data">>)
    /\ proc_file' = ProcFile(<<"Sheet1", "Data">>, {})
    /\ answer_position' = "A1"
    /\ ResetWb("idle")
    /\ UNCHANGED <<dataset, num_test_cases, task_i, results, outsideEval>>

\* The inner loop is exhausted: results[task_id] = {...}, then the next
\* task, or return results.
FinishTask ==
    /\ eval_pc = "trial"
    /\ tc_idx = num_test_cases
    /\ LET task_id == dataset[task_i].id
           record == [test_case_results |-> test_case_results,
                      soft |-> Soft(test_case_results),
                      hard |-> Hard(test_case_results)]
       IN  results' = [t \in (DOMAIN results) \cup {task_id} |->
                          IF t = task_id THEN record ELSE results[t]]
    /\ IF task_i < Len(dataset)
       THEN /\ task_i' = task_i + 1
            /\ tc_idx' = 0
            /\ test_case_results' = <<>>
            /\ eval_pc' = "trial"
       ELSE /\ eval_pc' = "returned"
            /\ UNCHANGED <<task_i, tc_idx, test_case_results>>
    /\ UNCHANGED <<dataset, num_test_cases, eval_log, wbVars, outsideEval>>

NextEval ==
    \/ StartTrial
    \/ CheckExists \/ LoadWorkbooks \/ BeginSegment \/ CompareCell \/ SegmentPassed
    \/ RecordTrial
    \/ FinishTask

SpecEval == InitEval /\ [][NextEval]_vars

(***************************************************************************)
(* SpecMulti: inference_multiple.gen_solution with n_concurrent > 1.  The  *)
(* main thread submits one process_single_task call per task to a          *)
(* ThreadPoolExecutor of n_concurrent workers and collects the futures;    *)
(* the calls interleave at every step below.                               *)
(***************************************************************************)
\* Up to MaxWorkers workers and MaxBatch tasks.
MaxWorkers == 3
MaxBatch == 3

InitMulti ==
    /\ m_n \in 2..MaxWorkers
    /\ m_setting_ok \in BOOLEAN
    /\ m_nt \in 1..MaxBatch
    /\ m_submitted = 0
    /\ m_state = [t \in 1..m_nt |-> "new"]
    /\ m_lock = 0 /\ m_open = {} /\ m_file = <<>>
    /\ m_pbar = 0 /\ m_collected = {} /\ m_main = "submit"
    /\ InitAgentIdle
    /\ InitCellIdle
    /\ InitColIdle
    /\ InitRngIdle
    /\ InitWbIdle
    /\ InitEvalIdle

\* A worker thread is inside the call of task t.
InCall(t) ==
    m_state[t] \in {"running", "waitlock", "locked", "writing", "written", "update"}

\* The call of task t has returned or raised: its future is completed.
Completed(t) == m_state[t] \in {"done", "failed"}

\* A lock that is never held: the append without `with _output_lock`.
LockFree_Always(holder) == TRUE

\* threading.Lock: acquire goes through only while no thread holds it.
LockFree(holder) == holder = 0

\* for data in dataset: executor.submit(process_single_task, ...)
Submit ==
    /\ m_main = "submit"
    /\ m_submitted < m_nt
    /\ m_submitted' = m_submitted + 1
    /\ m_state' = [m_state EXCEPT ![m_submitted + 1] = "pending"]
    /\ m_main' = IF m_submitted + 1 = m_nt THEN "wait" ELSE "submit"
    /\ UNCHANGED <<m_n, m_setting_ok, m_nt, m_lock, m_open, m_file, m_pbar, m_collected,
                   agentVars, outsideInf>>

\* A free worker takes the oldest queued call; process_single_task builds
\* the prompt, or prints 'Wrong multi-round setting.' and returns.
StartTask(t) ==
    /\ m_state[t] = "pending"
    /\ \A u \in 1..(t - 1) : m_state[u] # "pending"
    /\ Cardinality({u \in 1..m_nt : InCall(u)}) < m_n
    /\ m_state' = [m_state EXCEPT ![t] = IF m_setting_ok THEN "running" ELSE "done"]
    /\ UNCHANGED <<m_n, m_setting_ok, m_nt, m_submitted, m_lock, m_open, m_file, m_pbar,
                   m_collected, m_main, agentVars, outsideInf>>

\* The conversation loop and conv_result; any of its calls may raise.
Converse(t) ==
    /\ m_state[t] = "running"
    /\ \E raises \in BOOLEAN :
          m_state' = [m_state EXCEPT ![t] = IF raises THEN "failed" ELSE "waitlock"]
    /\ UNCHANGED <<m_n, m_setting_ok, m_nt, m_submitted, m_lock, m_open, m_file, m_pbar,
                   m_collected, m_main, agentVars, outsideInf>>

\* with _output_lock:
AcquireLock(t) ==
    /\ m_state[t] = "waitlock"
    /\ LockFree(m_lock)
    /\ m_lock' = t
    /\ m_state' = [m_state EXCEPT ![t] = "locked"]
    /\ UNCHANGED <<m_n, m_setting_ok, m_nt, m_submitted, m_open, m_file, m_pbar,
                   m_collected, m_main, agentVars, outsideInf>>

\* with open(..., 'a+') as fp: open may raise, and the lock is released.
OpenFile(t) ==
    /\ m_state[t] = "locked"
    /\ \E raises \in BOOLEAN :
          IF raises
          THEN /\ m_state' = [m_state EXCEPT ![t] = "failed"]
               /\ m_lock' = 0
               /\ m_open' = m_open
          ELSE /\ m_state' = [m_state EXCEPT ![t] = "writing"]
               /\ m_open' = m_open \cup {t}
               /\ m_lock' = m_lock
    /\ UNCHANGED <<m_n, m_setting_ok, m_nt, m_submitted, m_file, m_pbar,
                   m_collected, m_main, agentVars, outsideInf>>

\* fp.write(json.dumps(conv_result) + '\n') and the close of fp.
WriteRecord(t) ==
    /\ m_state[t] = "writing"
    /\ m_file' = Append(m_file, t)
    /\ m_open' = m_open \ {t}
    /\ m_state' = [m_state EXCEPT ![t] = "written"]
    /\ UNCHANGED <<m_n, m_setting_ok, m_nt, m_submitted, m_lock, m_pbar,
                   m_collected, m_main, agentVars, outsideInf>>

\* The end of the `with _output_lock` block.
ReleaseLock(t) ==
    /\ m_state[t] = "written"
    /\ m_lock' = 0
    /\ m_state' = [m_state EXCEPT ![t] = "update"]
    /\ UNCHANGED <<m_n, m_setting_ok, m_nt, m_submitted, m_open, m_file, m_pbar,
                   m_collected, m_main, agentVars, outsideInf>>

\* pbar.update(1) and the return of process_single_task.
UpdateBar(t) ==
    /\ m_state[t] = "update"
    /\ m_pbar' = m_pbar + 1
    /\ m_state' = [m_state EXCEPT ![t] = "done"]
    /\ UNCHANGED <<m_n, m_setting_ok, m_nt, m_submitted, m_lock, m_open, m_file,
                   m_collected, m_main, agentVars, outsideInf>>

\* for future in as_completed(futures): future.result() returns, or
\* re-raises the exception of the call.
Collect(t) ==
    /\ m_main = "wait"
    /\ t \notin m_collected
    /\ Completed(t)
    /\ IF m_state[t] = "failed"
       THEN /\ m_main' = "unwinding"
            /\ m_collected' = m_collected
       ELSE /\ m_collected' = m_collected \cup {t}
            /\ m_main' = IF m_collected \cup {t} = 1..m_nt THEN "leaving" ELSE "wait"
    /\ UNCHANGED <<m_n, m_setting_ok, m_nt, m_submitted, m_state, m_lock, m_open, m_file,
                   m_pbar, agentVars, outsideInf>>

\* The end of `with ThreadPoolExecutor(...)`: shutdown(wait=True) returns
\* once every submitted call is over; then gen_solution returns, or the
\* exception goes on.
Shutdown ==
    /\ m_main \in {"leaving", "unwinding"}
    /\ \A t \in 1..m_nt : Completed(t)
    /\ m_main' = IF m_main = "leaving" THEN "returned" ELSE "raised"
    /\ UNCHANGED <<m_n, m_setting_ok, m_nt, m_submitted, m_state, m_lock, m_open, m_file,
                   m_pbar, m_collected, agentVars, outsideInf>>

NextMulti ==
    \/ Submit
    \/ \E t \in 1..m_nt : StartTask(t)
    \/ \E t \in 1..m_nt : Converse(t)
    \/ \E t \in 1..m_nt : AcquireLock(t)
    \/ \E t \in 1..m_nt : OpenFile(t)
    \/ \E t \in 1..m_nt : WriteRecord(t)
    \/ \E t \in 1..m_nt : ReleaseLock(t)
    \/ \E t \in 1..m_nt : UpdateBar(t)
    \/ \E t \in 1..m_nt : Collect(t)
    \/ Shutdown

SpecMulti == InitMulti /\ [][NextMulti]_vars

(***************************************************************************)
(* SpecAgent: the task loop of inference_agent.main with                   *)
(* run_agent_on_task.  The agent subprocess is the environment: it times   *)
(* out, fails to start, or ends having written the output file, another    *)
(* xlsx file, or nothing.                                                  *)
(***************************************************************************)
AgentIds == {"T1", "T2", "T3"}
AgentDatasets ==
    {<<"T1", "T2", "T3">>, <<"T2", "T1", "T2">>, <<"T1", "T1", "T2">>, <<"T3", "T2">>, <<"T1">>}
ResumeOptions == {<<>>, <<"T1">>, <<"T2">>, <<"T9">>}
AgentOutcomes == {"timeout", "exception", "output", "alt", "nothing"}

InitAgent ==
    /\ a_dataset \in AgentDatasets
    /\ a_resume_from \in ResumeOptions
    /\ a_inputs \in {AgentIds, {"T2", "T3"}}
    /\ a_outputs \in {{}, {"T1"}}
    /\ a_i = 1
    /\ resume_active = (a_resume_from # <<>>)
    /\ a_pc = "loop"
    /\ a_result = <<>>
    /\ results_summary = NoCounts
    /\ a_log = <<>> /\ a_calls = <<>> /\ a_visits = <<>>
    /\ InitMultiIdle
    /\ InitCellIdle
    /\ InitColIdle
    /\ InitRngIdle
    /\ InitWbIdle
    /\ InitEvalIdle

\* str(data['id']) == str(opt.resume_from)
ResumeMatches(id) == a_resume_from = <<id>>

\* A resume flag that is never cleared.
NextResumeActive_Sticky(active, matched) == active

\* if resume_active: if matched: resume_active = False
NextResumeActive(active, matched) == IF active /\ matched THEN FALSE ELSE active

\* The two tests in the other order: the output file first.
EarlyStatus_OutputFirst(input_exists, output_exists) ==
    IF output_exists THEN <<"skipped_existing">>
    ELSE IF ~input_exists THEN <<"missing_input">>
    ELSE <<>>

\* The status run_agent_on_task returns before it runs the agent, if any:
\* the input file is tested first, then the output file.
EarlyStatus(input_exists, output_exists) ==
    IF ~input_exists THEN <<"missing_input">>
    ELSE IF output_exists THEN <<"skipped_existing">>
    ELSE <<>>

\* The status after the agent subprocess.
StatusOf(outcome) ==
    CASE outcome = "timeout" -> "timeout"
      [] outcome = "exception" -> "error"
      [] outcome = "output" -> "success"
      [] outcome = "alt" -> "success_alt_name"
      [] outcome = "nothing" -> "no_output"

\* The counter of results_summary a status is added to.
Bucket(status) ==
    CASE status \in {"success", "success_alt_name"} -> "success"
      [] status = "skipped_existing" -> "skipped"
      [] status = "timeout" -> "timeout"
      [] status = "no_output" -> "no_output"
      [] OTHER -> "error"

\* if resume_active and the id is not opt.resume_from: continue
SkipTask ==
    /\ a_pc = "loop"
    /\ a_i <= Len(a_dataset)
    /\ resume_active /\ ~ResumeMatches(a_dataset[a_i])
    /\ a_i' = a_i + 1
    /\ a_visits' = Append(a_visits, "skipped")
    /\ UNCHANGED <<a_dataset, a_resume_from, resume_active, a_pc, a_inputs, a_outputs,
                   a_result, results_summary, a_log, a_calls, multiVars, outsideInf>>

\* The resume test lets the task through; result = run_agent_on_task(...).
RunAgentOnTask ==
    /\ a_pc = "loop"
    /\ a_i <= Len(a_dataset)
    /\ ~resume_active \/ ResumeMatches(a_dataset[a_i])
    /\ resume_active' = NextResumeActive(resume_active, ResumeMatches(a_dataset[a_i]))
    /\ a_visits' = Append(a_visits, "processed")
    /\ LET task_id == a_dataset[a_i]
           early == EarlyStatus(task_id \in a_inputs, task_id \in a_outputs)
       IN  \E outcome \in AgentOutcomes :
             LET status == IF early # <<>> THEN early[1] ELSE StatusOf(outcome)
                 copied == early = <<>> /\ outcome \in {"output", "alt"}
             IN  /\ a_result' = <<[id |-> task_id, status |-> status]>>
                 /\ a_outputs' = IF copied THEN a_outputs \cup {task_id} ELSE a_outputs
                 /\ a_calls' = Append(a_calls,
                                      [id |-> task_id,
                                       input_existed |-> task_id \in a_inputs,
                                       output_existed |-> task_id \in a_outputs,
                                       invoked |-> early = <<>>,
                                       wrote |-> copied,
                                       status |-> status])
    /\ a_pc' = "track"
    /\ UNCHANGED <<a_dataset, a_resume_from, a_i, a_inputs, results_summary, a_log,
                   multiVars, outsideInf>>

\* status = result.get("status", "error") and the counter of its kind.
TrackResult ==
    /\ a_pc = "track"
    /\ results_summary' =
          [results_summary EXCEPT ![Bucket(a_result[1].status)] = @ + 1]
    /\ a_pc' = "log"
    /\ UNCHANGED <<a_dataset, a_resume_from, a_i, resume_active, a_inputs, a_outputs,
                   a_result, a_log, a_calls, a_visits, multiVars, outsideInf>>

\* One line of the log file, and the next task.
LogResult ==
    /\ a_pc = "log"
    /\ a_log' = Append(a_log, a_result[1])
    /\ a_result' = <<>>
    /\ a_i' = a_i + 1
    /\ a_pc' = "loop"
    /\ UNCHANGED <<a_dataset, a_resume_from, resume_active, a_inputs, a_outputs,
                   results_summary, a_calls, a_visits, multiVars, outsideInf>>

\* The for loop is exhausted: the summary is printed.
FinishLoop ==
    /\ a_pc = "loop"
    /\ a_i > Len(a_dataset)
    /\ a_pc' = "done"
    /\ UNCHANGED <<a_dataset, a_resume_from, a_i, resume_active, a_inputs, a_outputs,
                   a_result, results_summary, a_log, a_calls, a_visits, multiVars,
                   outsideInf>>

NextAgent == SkipTask \/ RunAgentOnTask \/ TrackResult \/ LogResult \/ FinishLoop

SpecAgent == InitAgent /\ [][NextAgent]_vars

(***************************************************************************)
(* Properties of the cell comparison (SpecCell)                            *)
(***************************************************************************)
Abs(x) == IF x < 0 THEN 0 - x ELSE x

\* Two numbers of thousandths lie closest to the same multiple of 0.01.
SameHundredth(ma, mb) ==
    \E h \in ((ma \div 10) - 1)..((ma \div 10) + 1) :
        Abs(ma - 10 * h) < 5 /\ Abs(mb - 10 * h) < 5

IsNumber(v) == v.t = "int" \/ v.t = "float"
IsEmpty(v) == v.t = "NoneType" \/ (v.t = "str" /\ v.s = "")
IsNaN(v) == v.t = "float" /\ v.k = "nan"

\* C3: a number and a text compare equal exactly when the text parses as a
\* finite number that rounds to the same 2-decimal value (5 and "5.00" are
\* equal, 5 and "five" are not); after normalisation two non-empty values of
\* different canonical type are never equal, and two of the same canonical
\* type are equal exactly when their canonical values are equal.
C3_NumberTextAndCanonicalType ==
    Len(eq) = 1 =>
        /\ (IsNumber(v1) /\ v2.t = "str") =>
              LET f == float_of_str(v2.s)
              IN  eq[1] = (/\ f.ok
                           /\ f.value.k = "fin"
                           /\ SameHundredth(float_of_number(v1).m, f.value.m))
        /\ (v1 = IntValue(5) /\ v2 = StrValue("5.00")) => eq[1]
        /\ (v1 = IntValue(5) /\ v2 = StrValue("five")) => ~eq[1]
        /\ LET t1 == transform_value(v1)
               t2 == transform_value(v2)
           IN  (~IsEmpty(t1) /\ ~IsEmpty(t2)) =>
                  /\ (t1.t # t2.t) => ~eq[1]
                  /\ (t1.t = t2.t) => (eq[1] = PyEq(t1, t2))

C3_Witness ==
    v1 = IntValue(5) /\ v2 = StrValue("5.00") /\ eq = <<TRUE>>

\* C4: "" and None are equivalent in both orders, None = None and "" = "";
\* an empty value never equals a non-empty one.
C4_EmptyEquivalence ==
    Len(eq) = 1 =>
        /\ (IsEmpty(v1) /\ IsEmpty(v2)) => eq[1]
        /\ (IsEmpty(v1) # IsEmpty(v2)) => ~eq[1]

C4_Witness ==
    v1.t = "NoneType" /\ v2 = StrValue("") /\ eq = <<TRUE>>

\* C5: two numeric cells compare equal exactly when both round to the same
\* value at 2 decimals: 5 = 5.004, 5 # 5.006, 10 = 10.0.
C5_NumbersRoundToTwoDecimals ==
    (Len(eq) = 1 /\ IsNumber(v1) /\ IsNumber(v2)) =>
        /\ eq[1] = SameHundredth(float_of_number(v1).m, float_of_number(v2).m)
        /\ (v1 = IntValue(5) /\ v2 = FloatValue(5004)) => eq[1]
        /\ (v1 = IntValue(5) /\ v2 = FloatValue(5006)) => ~eq[1]
        /\ (v1 = IntValue(10) /\ v2 = FloatValue(10000)) => eq[1]

C5_Witness ==
    v1 = IntValue(5) /\ v2 = FloatValue(5004) /\ eq = <<TRUE>>

\* C6 as stated: two datetimes of the same calendar date compare equal
\* whatever their times of day.
C6_SameDateAlwaysEqual ==
    (Len(eq) = 1 /\ v1.t = "datetime" /\ v2.t = "datetime" /\ v1.days = v2.days) => eq[1]

\* The whole day a datetime's serial number is nearest to: its own date up
\* to noon, the next date after noon, and at noon exactly the even one.
NearestDay(v) ==
    IF 2 * v.seconds > SecondsPerDay \/ (2 * v.seconds = SecondsPerDay /\ v.days % 2 = 1)
    THEN v.days + 1
    ELSE v.days

\* C6: two datetimes compare equal exactly when their serial numbers round
\* to the same whole day; so two timestamps of one date compare equal when
\* both lie before noon or both after noon, whatever the hours between them.
C6_DatetimeNearestDay ==
    (Len(eq) = 1 /\ v1.t = "datetime" /\ v2.t = "datetime") =>
        /\ eq[1] = (NearestDay(v1) = NearestDay(v2))
        /\ (v1.days = v2.days /\ 2 * v1.seconds < SecondsPerDay
                /\ 2 * v2.seconds < SecondsPerDay) => eq[1]
        /\ (v1.days = v2.days /\ 2 * v1.seconds > SecondsPerDay
                /\ 2 * v2.seconds > SecondsPerDay) => eq[1]

C6_Witness ==
    /\ v1 = DatetimeValue(1, 0, 0) /\ v2 = DatetimeValue(1, 21600, 0)
    /\ eq = <<TRUE>>

HMS(v) == Pad(v.hour, 2) \o ":" \o Pad(v.minute, 2) \o ":" \o Pad(v.second, 2)

\* C7 as stated: the canonical form of a time is HH:MM:SS, so two times
\* that differ only in their sub-second part compare equal.
C7_TimeCanonicalHMS ==
    /\ (Len(norm) >= 1 /\ v1.t = "time") => norm[1] = StrValue(HMS(v1))
    /\ (Len(eq) = 1 /\ v1.t = "time" /\ v2.t = "time" /\ HMS(v1) = HMS(v2)) => eq[1]

\* C7: dropping the last 3 characters leaves HH:MM of a time without
\* microseconds and HH:MM:SS.mmm (milliseconds) of a time with them; two
\* times compare equal exactly when both are without microseconds and agree
\* in hour and minute, or both have microseconds and agree down to the
\* millisecond.
C7_TimeDropsLastThree ==
    /\ (Len(norm) >= 1 /\ v1.t = "time") =>
          norm[1] = StrValue(IF v1.microsecond = 0
                             THEN Pad(v1.hour, 2) \o ":" \o Pad(v1.minute, 2)
                             ELSE HMS(v1) \o "." \o Pad(v1.microsecond \div 1000, 3))
    /\ (Len(eq) = 1 /\ v1.t = "time" /\ v2.t = "time") =>
          eq[1] = \/ /\ v1.microsecond = 0 /\ v2.microsecond = 0
                     /\ v1.hour = v2.hour /\ v1.minute = v2.minute
                  \/ /\ v1.microsecond # 0 /\ v2.microsecond # 0
                     /\ HMS(v1) = HMS(v2)
                     /\ v1.microsecond \div 1000 = v2.microsecond \div 1000

C7_Witness ==
    /\ v1 = TimeValue(12, 30, 0, 0) /\ v2 = TimeValue(12, 30, 45, 0)
    /\ eq = <<TRUE>> /\ Len(norm) >= 1

\* C8 as stated: transform_value(transform_value(x)) == transform_value(x)
\* for every input.
C8_Idempotent ==
    Len(norm) = 2 => PyEq(norm[2], norm[1])

\* C8: transform_value(transform_value(x)) == transform_value(x) for every
\* input whose canonical value is not NaN; for a text that parses as NaN
\* both are NaN, which is not == to itself.
C8_IdempotentUnlessNaN ==
    Len(norm) = 2 =>
        /\ norm[2] = norm[1]
        /\ PyEq(norm[2], norm[1]) = ~IsNaN(norm[1])

C8_Witness ==
    v1 = StrValue("5.004") /\ Len(norm) = 2 /\ norm[2] = FloatValue(5000)

\* C9: compare_cell_value(a, b) = compare_cell_value(b, a).
C9_Symmetric ==
    (Len(eq) = 1 /\ Len(eqr) = 1) => eq[1] = eqr[1]

C9_Witness ==
    v1 = StrValue("") /\ v2.t = "NoneType" /\ eq = <<TRUE>> /\ eqr = <<TRUE>>

(***************************************************************************)
(* Properties of the column encoding (SpecCol)                             *)
(***************************************************************************)
\* The number of letters of column n in bijective base 26.
Letters(n) == IF n <= 26 THEN 1 ELSE IF n <= 702 THEN 2 ELSE IF n <= 18278 THEN 3 ELSE 4

\* C10: for n in 1..MaxCol, col_name2num(col_num2name(n)) = n, and
\* col_num2name(n) is a non-empty string of letters A-Z in bijective base
\* 26 (A = 1, Z = 26, AA = 27).
C10_ColumnRoundTrip ==
    (col_n >= 1 /\ col_pc # "input") =>
        /\ Len(col_name) = Letters(col_n)
        /\ \A i \in 1..Len(col_name) : IndexIn(CharAt(col_name, i), Upper) > 0
        /\ (col_n = 1) => col_name = "A"
        /\ (col_n = 26) => col_name = "Z"
        /\ (col_n = 27) => col_name = "AA"
        /\ (col_pc = "decoded") => col_back = col_n

C10_Witness ==
    col_n = MaxCol /\ col_pc = "decoded" /\ col_back = MaxCol

(***************************************************************************)
(* Properties of the workbook comparison (Spec)                            *)
(***************************************************************************)
FirstN(n) == [i \in 1..n |-> i]

\* The coordinate at position k of names holds unequal values on sheet sh.
Mismatch(sh, names, k) ==
    ~compare_cell_value(CellValueOf(gt_file, sh, names[k]), CellValueOf(proc_file, sh, names[k]))

\* cell_level_compare was called on the current segment with the sheet in
\* both workbooks and a range that expands.
CallOnBothSheets ==
    /\ Len(seg_log) > 0
    /\ HasSheet(gt_file, sheet_name) /\ HasSheet(proc_file, sheet_name)
    /\ generate_cell_names(cell_range).ok

\* C1: with the sheet in both workbooks, cell_level_compare walks the
\* expansion in order; it returns (True, "") exactly when every coordinate
\* compares equal, and otherwise False with the first mismatching coordinate
\* and both raw values, having compared no coordinate after it.
C1_FirstMismatchReported ==
    CallOnBothSheets =>
        LET names == generate_cell_names(cell_range).names
            bad == {k \in 1..Len(names) : Mismatch(sheet_name, names, k)}
        IN  /\ (pc = "cells") =>
                  /\ cmp_log = SubSeq(names, 1, cell_j - 1)
                  /\ \A k \in 1..(cell_j - 1) : k \notin bad
            /\ (Len(clc) = Len(seg_log)) =>
                  LET r == clc[Len(clc)]
                  IN  /\ r.result = (bad = {})
                      /\ r.result => (r.msg = Text("") /\ cmp_log = names)
                      /\ ~r.result =>
                            LET f == CHOOSE k \in bad : \A j \in bad : k <= j
                            IN  /\ r.msg = ValueDiff(names[f],
                                              CellValueOf(gt_file, sheet_name, names[f]),
                                              CellValueOf(proc_file, sheet_name, names[f]))
                                /\ cmp_log = SubSeq(names, 1, f)

C1_Witness ==
    /\ CallOnBothSheets
    /\ Len(clc) = Len(seg_log)
    /\ cell_names = <<"A1", "A2", "B1", "B2">>
    /\ cmp_log = <<"A1", "A2", "B1">>
    /\ ret = <<Returned(FALSE, ValueDiff("B1", StrValue("20"), WrongValue))>>

\* Segment i of the answer position fails: its sheet is not in the produced
\* workbook, or one of its coordinates holds unequal values.
SegmentFails(i) ==
    LET scr == Split(answer_position, ",")[i]
        sh == SegmentSheet(scr, gt_file)
        names == generate_cell_names(SegmentRange(scr)).names
    IN  \/ ~HasSheet(proc_file, sh)
        \/ \E k \in 1..Len(names) : Mismatch(sh, names, k)

\* C2: the segments are evaluated left to right; success is returned only
\* if every segment passes; at the first failing segment (False, that
\* segment's message) is returned and no later segment is evaluated.
C2_FailFastSegments ==
    /\ seg_log = FirstN(Len(seg_log))
    /\ (ret # <<>>) => pc = "done"
    /\ (ret # <<>> /\ segments # <<>>) =>
          LET n == Len(Split(answer_position, ","))
              k == Len(seg_log)
          IN  /\ \A i \in 1..(k - 1) : clc[i].result /\ ~SegmentFails(i)
              /\ ret[1] = clc[k]
              /\ ret[1].result => (k = n /\ ~SegmentFails(n))
              /\ ~ret[1].result => SegmentFails(k)

C2_Witness ==
    /\ Len(segments) = 3
    /\ seg_log = <<1, 2>>
    /\ Len(ret) = 1 /\ ~ret[1].result
    /\ clc[1].result

\* C11: generate_cell_names returns a coordinate without ':' unchanged as a
\* one-element list; for a range whose start corner is at or above-left of
\* its end corner it returns (end_col - start_col + 1) * (end_row - start_row + 1)
\* distinct coordinates, the columns ascending in the outer loop and the rows
\* ascending in the inner loop (A1:B2 gives A1, A2, B1, B2; B2:B2 gives B2);
\* a second call on the same expression returns the same list.
C11_ColumnMajorExpansion ==
    \A k \in 1..Len(rng_calls) :
        LET r == rng_calls[k]
            in == rng_in
            w == in.end_col - in.start_col + 1
            h == in.end_row - in.start_row + 1
        IN  /\ r.ok
            /\ r = rng_calls[1]
            /\ rng_str = CornerText(in.start_col, in.start_row) => r.names = <<rng_str>>
            /\ rng_str = RangeText(in) /\ w >= 1 /\ h >= 1 =>
                  /\ Len(r.names) = w * h
                  /\ Cardinality(Range(r.names)) = w * h
                  /\ \A i \in 1..(w * h) :
                        r.names[i] = CornerText(in.start_col + ((i - 1) \div h),
                                                in.start_row + ((i - 1) % h))
            /\ rng_str = "A1:B2" => r.names = <<"A1", "A2", "B1", "B2">>
            /\ rng_str = "B2:B2" => r.names = <<"B2">>

C11_Witness ==
    /\ rng_str = "Z9:AB11"
    /\ Len(rng_calls) = 2
    /\ rng_calls[2].names = <<"Z9", "Z10", "Z11", "AA9", "AA10", "AA11", "AB9", "AB10", "AB11">>

NotFound == Returned(FALSE, Text("worksheet not found"))

\* C12: when the sheet of a segment is absent from the produced workbook,
\* cell_level_compare, and with it compare_workbooks, returns (False,
\* "worksheet not found") at once: no exception is raised, whether or not
\* the ground truth has the sheet, and no cell of either workbook is read.
C12_WorksheetNotFound ==
    seg_log # <<>> /\ ~HasSheet(proc_file, sheet_name) =>
        /\ pc = "done"
        /\ clc # <<>> /\ clc[Len(clc)] = NotFound
        /\ Len(clc) = Len(seg_log)
        /\ ret = <<NotFound>>
        /\ exc = <<>>
        /\ cmp_log = <<>>

C12_Witness ==
    /\ pc = "done"
    /\ Len(seg_log) = 2
    /\ sheet_name = "Data"
    /\ ~HasSheet(proc_file, "Data") /\ HasSheet(gt_file, "Data")
    /\ ret = <<NotFound>>

\* C13: when the produced file does not exist, compare_workbooks returns
\* (False, "File not exist") as an ordinary result, with no exception, and
\* load_workbook is called on neither file, so that the outcome is the same
\* for a loadable, a missing and a corrupt ground-truth file.
C13_MissingProducedFile ==
    ~proc_file.exists =>
        /\ load_log = <<>>
        /\ exc = <<>>
        /\ seg_log = <<>>
        /\ pc \in {"exists", "done"}
        /\ pc = "done" => ret = <<Returned(FALSE, Text("File not exist"))>>

C13_Witness ==
    /\ pc = "done"
    /\ ~proc_file.exists
    /\ ~Loadable(gt_file) /\ gt_file.exists
    /\ ret = <<Returned(FALSE, Text("File not exist"))>>

\* The error load_workbook raises first: the ground truth is loaded first.
FirstLoadError ==
    IF ~Loadable(gt_file) THEN gt_file.error ELSE proc_file.error

\* C14: when the produced file exists and loading either workbook raises,
\* compare_workbooks returns (False, str(e)) for the error e that was
\* raised; the error is not propagated and no segment is evaluated.
C14_LoadErrorReturned ==
    proc_file.exists /\ (~Loadable(gt_file) \/ ~Loadable(proc_file)) =>
        /\ exc = <<>>
        /\ seg_log = <<>> /\ segments = <<>> /\ cmp_log = <<>>
        /\ pc \in {"exists", "load", "done"}
        /\ pc = "done" =>
              /\ ret = <<Returned(FALSE, Text(FirstLoadError))>>
              /\ FirstLoadError # ""

C14_Witness ==
    /\ pc = "done"
    /\ Loadable(gt_file)
    /\ proc_file.exists /\ ~Loadable(proc_file)
    /\ load_log = <<"gt_file", "proc_file">>
    /\ ret = <<Returned(FALSE, Text("File is not a zip file"))>>

\* C15: a missing artifact (the produced file, or the sheet of a segment in
\* the produced or in the ground-truth workbook) ends compare_workbooks
\* with a returned failure, never with an exception.
C15_MissingArtifactNeverRaises ==
    /\ pc = "done"
    /\ \/ ~proc_file.exists
       \/ /\ seg_log # <<>>
          /\ ~HasSheet(proc_file, sheet_name) \/ ~HasSheet(gt_file, sheet_name)
    => /\ exc = <<>>
       /\ ret # <<>>
       /\ ~ret[1].result

\* out is raw without the single quotes at its two ends.
Unquoted(raw, out) ==
    /\ out = "" \/ (CharAt(out, 1) # "'" /\ CharAt(out, Len(out)) # "'")
    /\ \E a, b \in 0..Len(raw) :
          /\ a + Len(out) + b = Len(raw)
          /\ SubSeq(raw, a + 1, a + Len(out)) = out
          /\ \A i \in (1..a) \cup ((Len(raw) - b + 1)..Len(raw)) : CharAt(raw, i) = "'"

\* C16: the sheet of a segment is the text before '!' without its
\* surrounding single quotes, or, without a '!', the first sheet of the
\* ground-truth workbook; the range is the rest without its surrounding
\* single quotes.  A segment without a sheet prefix returns "worksheet not
\* found" when the produced workbook has no sheet of that name.
C16_SheetAndRangeOfSegment ==
    seg_log # <<>> =>
        LET scr == segments[seg_log[Len(seg_log)]]
            i == FirstIndex("!", scr)
        IN  /\ i > 0 =>
                  /\ Unquoted(SubSeq(scr, 1, i - 1), sheet_name)
                  /\ Unquoted(SubSeq(scr, i + 1, Len(scr)), cell_range)
            /\ i = 0 =>
                  /\ sheet_name = gt_file.sheetnames[1]
                  /\ Unquoted(scr, cell_range)
                  /\ ~HasSheet(proc_file, gt_file.sheetnames[1]) =>
                        pc = "done" /\ ret = <<NotFound>>
            /\ scr = "'Sheet1'!'A1:B2'" => sheet_name = "Sheet1" /\ cell_range = "A1:B2"
            /\ scr = "'Data'!A1:A2" => sheet_name = "Data" /\ cell_range = "A1:A2"

C16_Witness ==
    /\ pc = "done"
    /\ seg_log = <<1>>
    /\ segments[1] = "A1:B2"
    /\ gt_file.sheetnames = <<"Data", "Sheet1">>
    /\ proc_file.sheetnames = <<"Sheet1">>
    /\ sheet_name = "Data" /\ cell_range = "A1:B2"
    /\ ret = <<NotFound>>

\* The trials of one task, in the order they were run.
TrialsOf(id) ==
    LET OfTask(e) == e.task = id
    IN  SelectSeq(eval_log, OfTask)

\* C17: for num_test_cases >= 1, the record of a task holds exactly
\* num_test_cases outcomes, the k-th being 1 when the k-th trial passed and 0
\* otherwise; soft is the number of 1s over num_test_cases, within [0, 1];
\* hard is 1 when no outcome is 0 and 0 otherwise; and hard = 1 exactly when
\* soft = 1 (outcomes 1, 0, 1 give soft 2/3 and hard 0).
C17_SoftAndHardScores ==
    \A id \in DOMAIN results :
        LET rec == results[id]
            tcr == rec.test_case_results
            ones == Cardinality({k \in 1..Len(tcr) : tcr[k] = 1})
            log == TrialsOf(id)
        IN  /\ Len(tcr) = num_test_cases
            /\ Len(log) = num_test_cases
            /\ \A k \in 1..Len(tcr) :
                  /\ tcr[k] \in {0, 1}
                  /\ log[k].tc = k
                  /\ tcr[k] = 1 <=> log[k].outcome = "passed"
            /\ rec.soft = [num |-> ones, den |-> num_test_cases]
            /\ 0 <= rec.soft.num /\ rec.soft.num <= rec.soft.den
            /\ rec.hard = (IF \A k \in 1..Len(tcr) : tcr[k] = 1 THEN 1 ELSE 0)
            /\ rec.hard = 1 <=> rec.soft.num = rec.soft.den
            /\ tcr = <<1, 0, 1>> => rec.soft = [num |-> 2, den |-> 3] /\ rec.hard = 0

C17_Witness ==
    /\ eval_pc = "returned"
    /\ "T1" \in DOMAIN results /\ "T2" \in DOMAIN results
    /\ results["T1"].test_case_results = <<1, 0, 1>>
    /\ results["T1"].hard = 0
    /\ results["T2"].test_case_results = <<1, 1, 1>>
    /\ results["T2"].hard = 1

\* The guard of some statement of run_evaluation, or of the compare_workbooks
\* call it waits for, holds.
CanStep ==
    \/ eval_pc = "trial" /\ tc_idx < num_test_cases
    \/ eval_pc = "trial" /\ tc_idx = num_test_cases
    \/ /\ eval_pc = "comparing"
       /\ \/ pc \in {"exists", "load", "done"}
          \/ pc = "segment" /\ seg_i \in 1..Len(segments)
          \/ pc = "cells" /\ cell_j \in 1..(Len(cell_names) + 1)

\* C18: an exception raised by compare_workbooks in a trial is caught and
\* the trial is recorded as 0; run_evaluation never ends by that exception,
\* goes on with the remaining trials and tasks, and returns a record for
\* every task of the dataset, all of whose trials were run.
C18_TrialExceptionCaught ==
    /\ eval_pc \in {"trial", "comparing", "returned"}
    /\ eval_pc # "returned" =>
          /\ CanStep
          /\ task_i \in 1..Len(dataset)
          /\ Len(eval_log) = (task_i - 1) * num_test_cases + tc_idx
          /\ Len(test_case_results) = tc_idx
    /\ \A k \in 1..Len(eval_log) :
          eval_log[k].outcome = "raised" =>
              LET id == eval_log[k].task
                  tcr == IF id \in DOMAIN results THEN results[id].test_case_results
                         ELSE test_case_results
              IN  tcr[eval_log[k].tc] = 0
    /\ eval_pc = "returned" =>
          /\ DOMAIN results = {dataset[i].id : i \in 1..Len(dataset)}
          /\ Len(eval_log) = Len(dataset) * num_test_cases
          /\ \A i \in 1..Len(dataset) :
                Len(results[dataset[i].id].test_case_results) = num_test_cases

C18_Witness ==
    /\ eval_pc = "returned"
    /\ Len(dataset) = 2
    /\ Len(eval_log) = 4
    /\ eval_log[1].outcome = "raised"
    /\ eval_log[2].outcome = "passed"
    /\ eval_log[3].outcome = "raised"
    /\ results[dataset[1].id].test_case_results = <<0, 1>>

\* C19: col_name2num reads a column name without regard to case: the
\* lower-case spelling of a name decodes to the number of the upper-case
\* spelling ("a" and "A" to 1, "aa" and "AA" to 27).
C19_CaseInsensitive ==
    col_pc = "decoded" /\ col_low # <<>> =>
        /\ col_low[1] = col_back
        /\ col_name = "A" => col_low[1] = 1
        /\ col_name = "AA" => col_low[1] = 27

\* C20: col_num2name returns a column name for every positive number and
\* returns no string for a number below 1: the call ends in an error.
C20_FailsOnNonPositive ==
    /\ col_n >= 1 /\ col_pc # "input" => col_name # ""
    /\ col_n <= 0 => col_pc = "input"

\* Ranges whose end column is left of the start column, or whose end row is
\* above the start row.
ReversedRanges == {"B2:A1", "A2:B1", "B1:A2"}

\* C21: a reversed range is not normalised: generate_cell_names returns the
\* empty list for it, and cell_level_compare on it, the sheet being in both
\* workbooks, returns (True, "") without comparing any cell, whatever the
\* workbooks hold.
C21_ReversedRangeIsEmpty ==
    /\ seg_log # <<>>
    /\ cell_range \in ReversedRanges
    /\ HasSheet(proc_file, sheet_name) /\ HasSheet(gt_file, sheet_name)
    => /\ pc \in {"cells", "done"}
       /\ cell_names = <<>>
       /\ cmp_log = <<>>
       /\ exc = <<>>
       /\ pc = "done" =>
             /\ clc = <<Returned(TRUE, Text(""))>>
             /\ ret = <<Returned(TRUE, Text(""))>>

C21_Witness ==
    /\ pc = "done"
    /\ cell_range = "A2:B1"
    /\ sheet_name = "Sheet1"
    /\ HasSheet(gt_file, "Sheet1") /\ HasSheet(proc_file, "Sheet1")
    /\ proc_file.cells["Sheet1"]["A2"] = WrongValue
    /\ proc_file.cells["Sheet1"]["B1"] = WrongValue
    /\ ret = <<Returned(TRUE, Text(""))>>

\* A text that float() parses as NaN.
NaNText(v) == v.t = "str" /\ LowerStr(StripBlanks(v.s)) \in {"nan", "+nan", "-nan"}

\* C22: compare_workbooks of a loadable workbook against itself returns
\* (True, "") whenever it returns a result.
C22_Reflexive ==
    pc = "done" /\ proc_file = gt_file /\ ret # <<>> => ret[1].result

\* C22: compare_cell_value(x, x) is true for every cell value x except a
\* text that parses as NaN, for which it is false; so compare_workbooks of
\* a loadable workbook against itself passes exactly when no compared cell
\* holds such a text, and otherwise reports that cell with gt = proc.
C22_ReflexiveUnlessNaN ==
    pc = "done" /\ proc_file = gt_file /\ ret # <<>> =>
        /\ ret[1].result =>
              \A k \in 1..Len(cmp_log) :
                  ~NaNText(CellValueOf(gt_file, sheet_name, cmp_log[k]))
        /\ ~ret[1].result =>
              /\ cmp_log # <<>>
              /\ ret[1].msg.kind = "diff"
              /\ ret[1].msg.cell = cmp_log[Len(cmp_log)]
              /\ ret[1].msg.gt = ret[1].msg.proc
              /\ ret[1].msg.gt = CellValueOf(gt_file, sheet_name, ret[1].msg.cell)
              /\ NaNText(ret[1].msg.gt)

C22_Witness ==
    /\ pc = "done"
    /\ proc_file = gt_file
    /\ gt_file.cells["Sheet1"]["A1"] = StrValue("5.004")
    /\ answer_position = "Sheet1!A1:B2"
    /\ cmp_log = <<"A1", "A2", "B1", "B2">>
    /\ ret = <<Returned(TRUE, Text(""))>>

\* The number of lines of the JSONL file written by task t.
RecordsOf(t) == Cardinality({k \in 1..Len(m_file) : m_file[k] = t})

\* C23: with n_concurrent > 1, a thread has the JSONL file open for
\* appending only while it holds _output_lock, so at most one append is
\* under way at any time; a task whose setting is valid and whose call
\* raises nothing appends exactly one record, and no task more than one;
\* gen_solution is over only when every submitted call is over, and it
\* ends by an exception exactly when some call raised.
C23_AppendsUnderLock ==
    /\ Cardinality(m_open) <= 1
    /\ \A t \in m_open : m_lock = t /\ m_state[t] = "writing"
    /\ \A t \in 1..m_nt :
          /\ RecordsOf(t) <= 1
          /\ m_state[t] = "done" /\ m_setting_ok => RecordsOf(t) = 1
          /\ m_state[t] = "done" /\ ~m_setting_ok => RecordsOf(t) = 0
          /\ m_state[t] = "failed" => RecordsOf(t) = 0
    /\ m_main \in {"returned", "raised"} =>
          /\ m_submitted = m_nt
          /\ \A t \in 1..m_nt : Completed(t)
          /\ m_open = {} /\ m_lock = 0
    /\ m_main = "returned" =>
          /\ \A t \in 1..m_nt : m_state[t] = "done"
          /\ m_setting_ok => Len(m_file) = m_nt /\ m_pbar = m_nt
    /\ m_main = "raised" => \E t \in 1..m_nt : m_state[t] = "failed"

C23_Witness ==
    /\ m_n >= 2
    /\ Len(m_file) >= 1
    /\ \E t, u \in 1..m_nt :
          /\ t \in m_open /\ m_lock = t
          /\ m_state[u] = "waitlock"

\* The position of the first task whose id is opt.resume_from, 0 if none.
FirstMatch ==
    IF \E k \in 1..Len(a_dataset) : a_resume_from = <<a_dataset[k]>>
    THEN CHOOSE k \in 1..Len(a_dataset) :
            /\ a_resume_from = <<a_dataset[k]>>
            /\ \A j \in 1..(k - 1) : a_resume_from # <<a_dataset[j]>>
    ELSE 0

\* The task at position k is to be processed.
ShouldProcess(k) == a_resume_from = <<>> \/ (FirstMatch > 0 /\ k >= FirstMatch)

\* The positions to be processed among the first n, in dataset order.
RECURSIVE ProcessedUpTo(_)
ProcessedUpTo(n) ==
    IF n = 0 THEN <<>>
    ELSE ProcessedUpTo(n - 1) \o (IF ShouldProcess(n) THEN <<n>> ELSE <<>>)

\* C24: with --resume-from R the tasks are visited in dataset order; a task
\* before the first task whose id is R is skipped, with no run_agent_on_task
\* call and no log line, and that task and every later one is processed;
\* when no id is R no task is processed.  Without --resume-from every task
\* is processed.
C24_ResumeFromFirstMatch ==
    LET done == ProcessedUpTo(Len(a_visits))
    IN  /\ Len(a_visits) = (IF a_pc \in {"track", "log"} THEN a_i ELSE a_i - 1)
        /\ \A k \in 1..Len(a_visits) :
              a_visits[k] = (IF ShouldProcess(k) THEN "processed" ELSE "skipped")
        /\ Len(a_calls) = Len(done)
        /\ \A j \in 1..Len(a_calls) : a_calls[j].id = a_dataset[done[j]]
        /\ Len(a_log) = (IF a_pc \in {"track", "log"} THEN Len(done) - 1 ELSE Len(done))
        /\ \A j \in 1..Len(a_log) : a_log[j].id = a_dataset[done[j]]
        /\ a_pc = "done" =>
              /\ Len(a_visits) = Len(a_dataset)
              /\ (a_resume_from # <<>> /\ FirstMatch = 0) =>
                    a_calls = <<>> /\ a_log = <<>>

C24_Witness ==
    /\ a_pc = "done"
    /\ a_dataset = <<"T2", "T1", "T2">>
    /\ a_resume_from = <<"T1">>
    /\ a_visits = <<"skipped", "processed", "processed">>
    /\ Len(a_log) = 2
    /\ a_log[1].id = "T1" /\ a_log[2].id = "T2"

AgentStatuses ==
    {"missing_input", "skipped_existing", "timeout", "error", "success",
     "success_alt_name", "no_output"}

\* The number of calls so far whose status is in S.
CallsWith(S) == Cardinality({j \in 1..Len(a_calls) : a_calls[j].status \in S})

\* The five counters of results_summary, added up.
SummaryTotal ==
    results_summary.success + results_summary.no_output + results_summary.error
        + results_summary.timeout + results_summary.skipped

\* Every call returns one of the seven statuses, runs the agent only when
\* the input exists and the output does not, writes the output only after
\* running the agent, and gets one log line and one counter.
AgentBookkeeping ==
    /\ \A j \in 1..Len(a_calls) :
          LET c == a_calls[j]
          IN  /\ c.status \in AgentStatuses
              /\ ~c.input_existed => c.status = "missing_input"
              /\ c.invoked <=> (c.input_existed /\ ~c.output_existed)
              /\ c.invoked <=>
                    c.status \in {"timeout", "error", "success", "success_alt_name",
                                  "no_output"}
              /\ c.wrote <=> c.status \in {"success", "success_alt_name"}
              /\ c.wrote => ~c.output_existed
    /\ \A j \in 1..Len(a_log) :
          a_log[j] = [id |-> a_calls[j].id, status |-> a_calls[j].status]
    /\ Len(a_log) = (IF a_pc \in {"track", "log"} THEN Len(a_calls) - 1 ELSE Len(a_calls))
    /\ SummaryTotal = (IF a_pc = "track" THEN Len(a_calls) - 1 ELSE Len(a_calls))
    /\ a_pc \in {"loop", "done"} =>
          /\ results_summary.success = CallsWith({"success", "success_alt_name"})
          /\ results_summary.skipped = CallsWith({"skipped_existing"})
          /\ results_summary.timeout = CallsWith({"timeout"})
          /\ results_summary.no_output = CallsWith({"no_output"})
          /\ results_summary.error = CallsWith({"error", "missing_input"})

\* C25: run_agent_on_task returns skipped_existing, without running the
\* agent, whenever the output file of the task exists.
C25_SkipsWheneverOutputExists ==
    /\ AgentBookkeeping
    /\ \A j \in 1..Len(a_calls) :
          a_calls[j].output_existed =>
              a_calls[j].status = "skipped_existing" /\ ~a_calls[j].invoked

\* C25: run_agent_on_task never writes an output file that exists: with the
\* input file missing it returns missing_input, also when the output exists,
\* and with the input present and the output existing it returns
\* skipped_existing, in both cases without running the agent.  Every
\* processed task gets exactly one of the seven statuses and one log line,
\* and the five counters add up to the number of processed tasks.
C25_NeverOverwritesOutput ==
    /\ AgentBookkeeping
    /\ \A j \in 1..Len(a_calls) :
          LET c == a_calls[j]
          IN  /\ c.output_existed => ~c.invoked /\ ~c.wrote
              /\ c.output_existed /\ c.input_existed => c.status = "skipped_existing"
              /\ c.output_existed /\ ~c.input_existed => c.status = "missing_input"
    /\ a_pc = "done" =>
          /\ SummaryTotal = Len(ProcessedUpTo(Len(a_dataset)))
          /\ Len(a_log) = SummaryTotal

C25_Witness ==
    /\ a_pc = "done"
    /\ a_dataset = <<"T2", "T1", "T2">>
    /\ a_resume_from = <<>>
    /\ Len(a_calls) = 3
    /\ a_calls[1].status = "success_alt_name"
    /\ a_calls[2].status = "missing_input" /\ a_calls[2].output_existed
    /\ a_calls[3].status = "skipped_existing"
    /\ results_summary = [success |-> 1, no_output |-> 0, error |-> 1, timeout |-> 0,
                           skipped |-> 1]
====
